---- MODULE Spec2Model ----
(***************************************************************************)
(* Model of the AcademiQa backend notification glue:                       *)
(*   core/signals.py        task_changed (the post_save hook of Task)      *)
(*   core/email_service.py  send_new_task_notification,                    *)
(*                          send_task_status_update,                       *)
(*                          send_new_message_notification and helpers      *)
(* One thread of execution runs either a Task save (and its post_save      *)
(* handler) or a direct call of one of the email functions.  The channel   *)
(* layer, the template engine and the SMTP server are the environment:     *)
(* each of their calls either succeeds or raises.                          *)
(***************************************************************************)
EXTENDS Naturals, Integers, Sequences, FiniteSets, TLC

\* ---------------------------------------------------------------- bounds
NumTasks      == 1      \* Task records that may be saved
MaxSaves      == 3      \* Task saves in one behaviour
MaxCalls      == 1      \* direct calls of the status/chat notifiers
MaxRecipients == 1      \* length of RECIPIENTS_NEW_TASK

Tasks   == 1..NumTasks
Clients == {"u7", "u9"}       \* ids of the users owning tasks
NoTask  == "absent"

\* ------------------------------------------------------------ data values
None == "None"                       \* Python's None for string-valued settings
Addr == "ops@example.com"            \* some e-mail address

\* a user: full name may be empty, the handle never is
Users == { [present |-> TRUE, full_name |-> fn, username |-> "ann"] :
             fn \in {"", "Ann Lee"} }
NoUser == [present |-> FALSE, full_name |-> "", username |-> ""]

BoundedSeq(S, n) == UNION { [1..k -> S] : k \in 0..n }

\* groups of the channel layer
AdminGroup     == <<"admin_dashboard">>
ClientGroup(c) == <<"client_", c>>

\* one observable effect of task_changed
GroupSend(group, type) == [op |-> "group_send", group |-> group, type |-> type]
NotifyCall             == [op |-> "send_new_task_notification",
                           group |-> <<>>, type |-> ""]

VARIABLES
  \* configuration (django settings, module constants)
  settings,        \* [DISABLE_EMAILS, DEFAULT_FROM_EMAIL, EMAIL_HOST_USER]
  RECIPIENTS_NEW_TASK,
  \* environment
  layerUp,         \* get_channel_layer() currently returns a layer
  \* persistence layer
  owner,           \* owner[t] = NoTask while Task t does not exist, else its client
  nSaves, nCalls,
  \* task_changed's activation
  pc,              \* position in task_changed ("idle" when not running)
  instance,        \* the Task being saved
  created,         \* the created flag of this save
  channel_layer,   \* local of line 13: "unset", "None" or "layer"
  lookup2,         \* result of line 35's lookup: "unset", "None" or "layer"
  effects,         \* successful publishes and the notifier call, in order
  failedSends,     \* group_send calls of this save that raised
  absentPublish,   \* a publish was attempted on a None layer
  outcome,         \* "running", "returned" or the exception that propagated
  \* per-task history
  notifyCount,     \* calls of send_new_task_notification per task
  \* the email function's activation
  epc,             \* position in the email function ("idle" when not running)
  ekind,           \* "new_task", "status_update" or "chat_notify"
  ecaller,         \* "signal" or "direct"
  sender,          \* message.sender of a chat notification
  sender_name,     \* context["sender_name"], "unset" until computed
  recipients,      \* local of line 69
  from_email,      \* local of line 91 ("unset" until computed)
  openAttempts,    \* calls of _open_smtp_connection in this activation
  sendAttempts,    \* calls of email.send in this activation
  sendState,       \* "none", "inflight", "ok" or "failed"
  conn,            \* "none", "open" or "closed": this activation's connection
  deliveryFailed,  \* the open or the send of this activation raised
  renderFailed,    \* context building or render_to_string raised
  eresult,         \* "running", "returned" or the exception that propagated
  openConns        \* connections opened by notify calls and not closed

cfgVars  == <<settings, RECIPIENTS_NEW_TASK>>
sigVars  == <<pc, instance, created, channel_layer, lookup2, effects,
              failedSends, absentPublish, outcome>>
histVars == <<notifyCount>>
mailVars == <<epc, ekind, ecaller, sender, sender_name, recipients, from_email,
              openAttempts, sendAttempts, sendState, conn, deliveryFailed,
              renderFailed, eresult>>
vars == <<settings, RECIPIENTS_NEW_TASK, layerUp, owner, nSaves, nCalls,
          pc, instance, created, channel_layer, lookup2, effects,
          failedSends, absentPublish, outcome,
          notifyCount,
          epc, ekind, ecaller, sender, sender_name, recipients, from_email,
          openAttempts, sendAttempts, sendState, conn, deliveryFailed,
          renderFailed, eresult, openConns>>

\* the email function's locals before a call
MailIdle ==
  /\ epc = "idle" /\ ekind = "none" /\ ecaller = "none"
  /\ sender = NoUser /\ sender_name = "unset"
  /\ recipients = <<>> /\ from_email = "unset"
  /\ openAttempts = 0 /\ sendAttempts = 0 /\ sendState = "none"
  /\ conn = "none" /\ deliveryFailed = FALSE /\ renderFailed = FALSE
  /\ eresult = "running"

Init ==
  /\ settings \in [DISABLE_EMAILS : BOOLEAN,
                   DEFAULT_FROM_EMAIL : {None, Addr},
                   EMAIL_HOST_USER : {None, Addr}]
  /\ RECIPIENTS_NEW_TASK \in BoundedSeq({"", Addr}, MaxRecipients)
  /\ layerUp \in BOOLEAN
  /\ owner = [t \in Tasks |-> NoTask]
  /\ nSaves = 0 /\ nCalls = 0
  /\ pc = "idle" /\ instance = 0 /\ created = FALSE
  /\ channel_layer = "unset" /\ lookup2 = "unset"
  /\ effects = <<>> /\ failedSends = 0 /\ absentPublish = FALSE
  /\ outcome = "running"
  /\ notifyCount = [t \in Tasks |-> 0]
  /\ MailIdle
  /\ openConns = 0

\* ------------------------------------------------------- core/signals.py
MailReset ==
  /\ epc' = "idle" /\ ekind' = "none" /\ ecaller' = "none"
  /\ sender' = NoUser /\ sender_name' = "unset"
  /\ recipients' = <<>> /\ from_email' = "unset"
  /\ openAttempts' = 0 /\ sendAttempts' = 0 /\ sendState' = "none"
  /\ conn' = "none" /\ deliveryFailed' = FALSE /\ renderFailed' = FALSE
  /\ eresult' = "running"

\* get_channel_layer(): the configured layer, or None when there is none
get_channel_layer == IF layerUp THEN "layer" ELSE None

\* the environment: the channel layer becomes (un)available
EnvLayer ==
  /\ layerUp' = ~layerUp
  /\ UNCHANGED <<cfgVars, owner, nSaves, nCalls, sigVars, histVars, mailVars,
                 openConns>>

\* Task.save(): the persistence layer writes the record and fires post_save
\* with created = (the record did not exist before)
SaveTask(t, c) ==
  /\ pc = "idle" /\ epc = "idle"
  /\ nSaves < MaxSaves
  /\ owner[t] = NoTask \/ owner[t] = c
  /\ created' = (owner[t] = NoTask)
  /\ owner' = [owner EXCEPT ![t] = c]
  /\ instance' = t
  /\ nSaves' = nSaves + 1
  /\ pc' = "L13"
  /\ UNCHANGED <<cfgVars, layerUp, nCalls, channel_layer, lookup2, effects,
                 failedSends, absentPublish, outcome, histVars, mailVars,
                 openConns>>

\* line 13-14: channel_layer = get_channel_layer(); if channel_layer:
Lookup13 ==
  /\ pc = "L13"
  /\ channel_layer' = get_channel_layer
  /\ pc' = IF get_channel_layer # None THEN "L24" ELSE "L27"
  /\ UNCHANGED <<cfgVars, layerUp, owner, nSaves, nCalls, instance, created,
                 lookup2, effects, failedSends, absentPublish, outcome,
                 histVars, mailVars, openConns>>

\* async_to_sync(channel_layer.group_send)(group, {"type": type, ...}):
\* the publish succeeds, or raises and (nothing catching it) leaves the handler
Publish(group, type, next) ==
  \E ok \in BOOLEAN :
    IF ok
    THEN /\ effects' = Append(effects, GroupSend(group, type))
         /\ pc' = next
         /\ outcome' = IF next = "done" THEN "returned" ELSE outcome
         /\ UNCHANGED failedSends
    ELSE /\ failedSends' = failedSends + 1
         /\ outcome' = "ChannelError"
         /\ pc' = "done"
         /\ UNCHANGED effects

\* line 24
Send24 ==
  /\ pc = "L24"
  /\ Publish(AdminGroup, "task_updated", "L25")
  /\ UNCHANGED <<cfgVars, layerUp, owner, nSaves, nCalls, instance, created,
                 channel_layer, lookup2, absentPublish, histVars, mailVars,
                 openConns>>

\* line 25
Send25 ==
  /\ pc = "L25"
  /\ Publish(ClientGroup(owner[instance]), "task_updated", "L27")
  /\ UNCHANGED <<cfgVars, layerUp, owner, nSaves, nCalls, instance, created,
                 channel_layer, lookup2, absentPublish, histVars, mailVars,
                 openConns>>

\* faulty variant: the notification branch taken on every save
NotifyBranch_always == TRUE

\* line 27: if created:
NotifyBranch == created

Branch27 ==
  /\ pc = "L27"
  /\ IF NotifyBranch
     THEN pc' = "L30" /\ UNCHANGED outcome
     ELSE pc' = "done" /\ outcome' = "returned"
  /\ UNCHANGED <<cfgVars, layerUp, owner, nSaves, nCalls, instance, created,
                 channel_layer, lookup2, effects, failedSends, absentPublish,
                 histVars, mailVars, openConns>>

\* line 30: send_new_task_notification(instance), inside the try
Call30 ==
  /\ pc = "L30"
  /\ effects' = Append(effects, NotifyCall)
  /\ notifyCount' = [notifyCount EXCEPT ![instance] = @ + 1]
  /\ epc' = "E65" /\ ekind' = "new_task" /\ ecaller' = "signal"
  /\ pc' = "L30call"
  /\ UNCHANGED <<cfgVars, layerUp, owner, nSaves, nCalls, instance, created,
                 channel_layer, lookup2, failedSends, absentPublish, outcome,
                 sender, sender_name, recipients, from_email,
                 openAttempts, sendAttempts, sendState, conn, deliveryFailed,
                 renderFailed, eresult, openConns>>

\* lines 29-33: the call returned, or raised and except Exception took it
Except31 ==
  /\ pc = "L30call" /\ epc = "ret"
  /\ pc' = "L35"
  /\ UNCHANGED <<cfgVars, layerUp, owner, nSaves, nCalls, instance, created,
                 channel_layer, lookup2, effects, failedSends, absentPublish,
                 outcome, histVars, mailVars, openConns>>

\* line 35: if get_channel_layer():
Lookup35 ==
  /\ pc = "L35"
  /\ lookup2' = get_channel_layer
  /\ IF get_channel_layer # None
     THEN pc' = "L36" /\ UNCHANGED outcome
     ELSE pc' = "done" /\ outcome' = "returned"
  /\ UNCHANGED <<cfgVars, layerUp, owner, nSaves, nCalls, instance, created,
                 channel_layer, effects, failedSends, absentPublish,
                 histVars, mailVars, openConns>>

\* line 36: channel_layer.group_send on line 13's local, not on line 35's value
Send36 ==
  /\ pc = "L36"
  /\ IF channel_layer = None
     THEN /\ absentPublish' = TRUE
          /\ outcome' = "AttributeError"
          /\ pc' = "done"
          /\ UNCHANGED <<effects, failedSends>>
     ELSE /\ Publish(AdminGroup, "task_created", "done")
          /\ UNCHANGED absentPublish
  /\ UNCHANGED <<cfgVars, layerUp, owner, nSaves, nCalls, instance, created,
                 channel_layer, lookup2, histVars, mailVars, openConns>>

\* task_changed is over: control goes back to the code that saved
Finish ==
  /\ pc = "done"
  /\ pc' = "idle" /\ instance' = 0 /\ created' = FALSE
  /\ channel_layer' = "unset" /\ lookup2' = "unset"
  /\ effects' = <<>> /\ failedSends' = 0 /\ absentPublish' = FALSE
  /\ outcome' = "running"
  /\ MailReset
  /\ UNCHANGED <<cfgVars, layerUp, owner, nSaves, nCalls, histVars, openConns>>

\* ------------------------------------------------- core/email_service.py
sigFrame == <<pc, instance, created, channel_layer, lookup2, effects,
              failedSends, absentPublish, outcome>>
mailFrame == <<cfgVars, layerUp, owner, nSaves, nCalls, sigFrame, histVars>>

\* _safe_from_email(): DEFAULT_FROM_EMAIL or EMAIL_HOST_USER (None when neither)
safe_from_email ==
  IF settings.DEFAULT_FROM_EMAIL # None THEN settings.DEFAULT_FROM_EMAIL
  ELSE settings.EMAIL_HOST_USER

\* user.get_full_name() or user.username
DisplayName(u) == IF u.full_name # "" THEN u.full_name ELSE u.username

\* [e for e in RECIPIENTS_NEW_TASK if e]
RECURSIVE NonEmpty(_)
NonEmpty(xs) ==
  IF xs = <<>> THEN <<>>
  ELSE IF Head(xs) # "" THEN <<Head(xs)>> \o NonEmpty(Tail(xs))
       ELSE NonEmpty(Tail(xs))

\* what the SMTP server does to an open or a send
SmtpResults == {"ok", "gaierror", "SMTPException"}

\* a view (or any other caller) calls send_task_status_update or
\* send_new_message_notification
DirectCall(kind, s) ==
  /\ pc = "idle" /\ epc = "idle"
  /\ nCalls < MaxCalls
  /\ nCalls' = nCalls + 1
  /\ epc' = "E65" /\ ekind' = kind /\ ecaller' = "direct"
  /\ sender' = s
  /\ UNCHANGED <<cfgVars, layerUp, owner, nSaves, sigFrame, histVars,
                 sender_name, recipients, from_email, openAttempts,
                 sendAttempts, sendState, conn, deliveryFailed, renderFailed,
                 eresult, openConns>>

\* lines 65-67, 119-121, 156-158: if DISABLE_EMAILS: return
DisabledGuard == settings.DISABLE_EMAILS

Guard65 ==
  /\ epc = "E65"
  /\ IF DisabledGuard
     THEN epc' = "ret" /\ eresult' = "returned"
     ELSE epc' = (IF ekind = "new_task" THEN "E69" ELSE "E74")
          /\ UNCHANGED eresult
  /\ UNCHANGED <<mailFrame, ekind, ecaller, sender, sender_name, recipients,
                 from_email, openAttempts, sendAttempts, sendState, conn,
                 deliveryFailed, renderFailed, openConns>>

\* lines 69-72: the recipients, and the return when there are none
Recipients69 ==
  /\ epc = "E69"
  /\ recipients' = NonEmpty(RECIPIENTS_NEW_TASK)
  /\ IF recipients' = <<>>
     THEN epc' = "ret" /\ eresult' = "returned"
     ELSE epc' = "E74" /\ UNCHANGED eresult
  /\ UNCHANGED <<mailFrame, ekind, ecaller, sender, sender_name, from_email,
                 openAttempts, sendAttempts, sendState, conn, deliveryFailed,
                 renderFailed, openConns>>

\* lines 74-89, 123-134, 160-171: subject, context and render_to_string, all
\* outside the try.  message.sender.get_full_name() on a missing sender
\* raises AttributeError; the template engine may raise.
Render74 ==
  /\ epc = "E74"
  /\ IF ekind = "chat_notify" /\ ~sender.present
     THEN /\ epc' = "ret" /\ eresult' = "AttributeError"
          /\ renderFailed' = TRUE
          /\ UNCHANGED sender_name
     ELSE /\ sender_name' = IF ekind = "chat_notify" THEN DisplayName(sender)
                            ELSE sender_name
          /\ \E ok \in BOOLEAN :
               IF ok
               THEN epc' = "E91" /\ UNCHANGED <<eresult, renderFailed>>
               ELSE epc' = "ret" /\ eresult' = "TemplateError"
                    /\ renderFailed' = TRUE
  /\ UNCHANGED <<mailFrame, ekind, ecaller, sender, recipients, from_email,
                 openAttempts, sendAttempts, sendState, conn, deliveryFailed,
                 openConns>>

\* faulty variant: the missing-sender return left out
SkipNoSender_never == FALSE

\* lines 92-94: if not from_email: return  (send_new_task_notification only)
SkipNoSender == ekind = "new_task" /\ safe_from_email = None

\* lines 91-104, 135-144, 172-181: from_email and the message object
From91 ==
  /\ epc = "E91"
  /\ from_email' = safe_from_email
  /\ IF SkipNoSender
     THEN epc' = "ret" /\ eresult' = "returned"
     ELSE epc' = "E107" /\ UNCHANGED eresult
  /\ UNCHANGED <<mailFrame, ekind, ecaller, sender, sender_name, recipients,
                 openAttempts, sendAttempts, sendState, conn, deliveryFailed,
                 renderFailed, openConns>>

\* faulty variant: the except clauses re-raise what they caught
ExceptHandler_reraise(e) == e

\* lines 111-114, 150-151, 187-188: the except clauses print and fall off
\* the end of the function
ExceptHandler(e) == "returned"

\* lines 107, 146, 183 with 19-40: conn = _open_smtp_connection()
Open107 ==
  /\ epc = "E107"
  /\ openAttempts' = openAttempts + 1
  /\ \E r \in SmtpResults :
       IF r = "ok"
       THEN /\ conn' = "open" /\ openConns' = openConns + 1
            /\ epc' = "E108"
            /\ UNCHANGED <<deliveryFailed, eresult>>
       ELSE /\ deliveryFailed' = TRUE
            /\ eresult' = ExceptHandler(r)
            /\ epc' = "ret"
            /\ UNCHANGED <<conn, openConns>>
  /\ UNCHANGED <<mailFrame, ekind, ecaller, sender, sender_name, recipients,
                 from_email, sendAttempts, sendState, renderFailed>>

\* faulty variant: the send handed to a detached thread, the function returning at once
SendBegin108_detached ==
  /\ epc = "E108"
  /\ sendAttempts' = sendAttempts + 1
  /\ sendState' = "inflight"
  /\ epc' = "ret" /\ eresult' = "returned"
  /\ UNCHANGED <<mailFrame, ekind, ecaller, sender, sender_name, recipients,
                 from_email, openAttempts, conn, deliveryFailed, renderFailed,
                 openConns>>

\* lines 108, 147, 184: email.send(fail_silently=False) is entered ...
SendBegin108 ==
  /\ epc = "E108"
  /\ sendAttempts' = sendAttempts + 1
  /\ sendState' = "inflight"
  /\ epc' = "E108wait"
  /\ UNCHANGED <<mailFrame, ekind, ecaller, sender, sender_name, recipients,
                 from_email, openAttempts, conn, deliveryFailed, renderFailed,
                 eresult, openConns>>

\* ... and the caller blocks in it until the SMTP exchange is over
SendEnd108 ==
  /\ epc = "E108wait"
  /\ \E r \in SmtpResults :
       IF r = "ok"
       THEN /\ sendState' = "ok" /\ epc' = "E109"
            /\ UNCHANGED <<deliveryFailed, eresult>>
       ELSE /\ sendState' = "failed"
            /\ deliveryFailed' = TRUE
            /\ eresult' = ExceptHandler(r)
            /\ epc' = "ret"
  /\ UNCHANGED <<mailFrame, ekind, ecaller, sender, sender_name, recipients,
                 from_email, openAttempts, sendAttempts, conn, renderFailed,
                 openConns>>

\* lines 109-110, 148-149, 185-186: conn.close() and the function's end
Close109 ==
  /\ epc = "E109"
  /\ conn' = "closed" /\ openConns' = openConns - 1
  /\ eresult' = "returned"
  /\ epc' = "ret"
  /\ UNCHANGED <<mailFrame, ekind, ecaller, sender, sender_name, recipients,
                 from_email, openAttempts, sendAttempts, sendState,
                 deliveryFailed, renderFailed>>

\* a direct call is over: its result or exception goes to the caller
DirectReturn ==
  /\ epc = "ret" /\ ecaller = "direct"
  /\ MailReset
  /\ UNCHANGED <<mailFrame, openConns>>

\* ------------------------------------------------------------------ system
Next ==
  \/ EnvLayer
  \/ \E t \in Tasks, c \in Clients : SaveTask(t, c)
  \/ Lookup13 \/ Send24 \/ Send25 \/ Branch27 \/ Call30 \/ Except31
  \/ Lookup35 \/ Send36 \/ Finish
  \/ DirectCall("status_update", NoUser)
  \/ \E s \in Users \cup {NoUser} : DirectCall("chat_notify", s)
  \/ Guard65 \/ Recipients69 \/ Render74 \/ From91 \/ Open107
  \/ SendBegin108 \/ SendEnd108 \/ Close109 \/ DirectReturn

Spec == Init /\ [][Next]_vars

\* ------------------------------------------------------------------ claims
Has(seq, e) == \E i \in DOMAIN seq : seq[i] = e

UpdatedEffects(c) == << GroupSend(AdminGroup, "task_updated"),
                        GroupSend(ClientGroup(c), "task_updated") >>
CreatedEffects(c) == UpdatedEffects(c) \o
                       << NotifyCall, GroupSend(AdminGroup, "task_created") >>

HandlerDone     == pc = "done"
MailDone        == epc = "ret"
NotifierRaised  == ekind = "new_task" /\ MailDone
                   /\ eresult \notin {"running", "returned"}
Enabled3        == /\ ~settings.DISABLE_EMAILS
                   /\ NonEmpty(RECIPIENTS_NEW_TASK) # <<>>
                   /\ safe_from_email # None

\* C1: a save handled with the channel layer available at each lookup has
\* exactly the effects, in order, [task_updated to admin_dashboard,
\* task_updated to client_<id>, notifier call, task_created to
\* admin_dashboard] when created, and only the first two otherwise.
C1_EffectsInOrder ==
  (HandlerDone /\ channel_layer = "layer" /\ lookup2 # None)
    => effects = IF created THEN CreatedEffects(owner[instance])
                 ELSE UpdatedEffects(owner[instance])

\* C2: when send_new_task_notification raises during a created save (layer
\* available), task_changed returns normally, both task_updated broadcasts
\* precede the call and the task_created broadcast follows it.
C2_NotifierFailureContained ==
  (HandlerDone /\ NotifierRaised /\ channel_layer = "layer" /\ lookup2 = "layer")
    => /\ outcome = "returned"
       /\ effects = CreatedEffects(owner[instance])

\* C3: a group_send that fails never makes task_changed propagate an
\* exception to the save path.
C3_BroadcastFailureContained ==
  (HandlerDone /\ failedSends > 0) => outcome = "returned"

\* C4: when either channel-layer lookup finds no layer, nothing is published
\* on an absent layer, the handler returns normally, and a created save
\* still called the notifier.
C4_AbsentLayerSkipped ==
  (HandlerDone /\ (channel_layer = None \/ lookup2 = None))
    => /\ ~absentPublish
       /\ outcome = "returned"
       /\ (created => Has(effects, NotifyCall))

\* C5 as stated: send_new_task_notification opens a connection or sends only
\* with emails enabled, a recipient and a sender; otherwise it makes no
\* attempt and returns without error.
C5_SkipsReturnNormally ==
  ekind = "new_task"
    => /\ (openAttempts > 0 \/ sendAttempts > 0) => Enabled3
       /\ (MailDone /\ ~Enabled3)
            => (openAttempts = 0 /\ sendAttempts = 0 /\ eresult = "returned")

\* C5 as amended: as above, except that with emails enabled and a recipient
\* present the context/template step runs before the sender check, so a
\* missing sender still means no attempt, but the function returns without
\* error only if that step did not raise.
C5_SkipsNoAttempt ==
  ekind = "new_task"
    => /\ (openAttempts > 0 \/ sendAttempts > 0) => Enabled3
       /\ (MailDone /\ ~Enabled3)
            => /\ openAttempts = 0 /\ sendAttempts = 0
               /\ \/ eresult = "returned"
                  \/ /\ renderFailed
                     /\ ~settings.DISABLE_EMAILS
                     /\ NonEmpty(RECIPIENTS_NEW_TASK) # <<>>
C5_Witness ==
  /\ ekind = "new_task" /\ MailDone
  /\ ~settings.DISABLE_EMAILS /\ recipients # <<>>
  /\ from_email = None /\ eresult = "returned"
  /\ openAttempts = 0

\* C6 as stated: a delivery failure (open or send) is re-raised to the
\* caller of the email function.
C6_FailurePropagates ==
  (MailDone /\ deliveryFailed) => eresult \notin {"running", "returned"}

\* C6 as amended: a delivery failure (open or send) in any of the three
\* email functions is caught and logged inside the function, which returns
\* normally; the caller does not observe it.
C6_FailureSwallowed ==
  (MailDone /\ deliveryFailed) => eresult = "returned"
C6_Witness ==
  MailDone /\ deliveryFailed /\ ekind = "status_update" /\ sendAttempts = 1

\* C7: over the saves of a Task the notifier is called at most once, and a
\* created=False save neither calls it nor publishes task_created.
C7_NotifyOnlyOnCreate ==
  /\ \A t \in Tasks : notifyCount[t] <= 1
  /\ (pc # "idle" /\ ~created)
       => /\ ~Has(effects, NotifyCall)
          /\ ~Has(effects, GroupSend(AdminGroup, "task_created"))
          /\ epc = "idle"
C7_Witness ==
  /\ HandlerDone /\ ~created /\ outcome = "returned"
  /\ notifyCount[instance] = 1
  /\ effects = UpdatedEffects(owner[instance])

\* C8 as stated: the notify call returns before the send it started has
\* completed.
C8_ReturnsBeforeSend ==
  (MailDone /\ sendAttempts > 0) => sendState = "inflight"

\* C8 as amended: the send runs on the caller's own thread: while it is in
\* flight the caller is blocked inside email.send, the call returns only
\* once the send has succeeded or failed, and a failed send still never
\* surfaces to the caller.
C8_SendIsSynchronous ==
  /\ sendState = "inflight" => epc = "E108wait"
  /\ (MailDone /\ sendAttempts > 0)
       => /\ sendState \in {"ok", "failed"}
          /\ sendState = "failed" => eresult = "returned"
C8_Witness ==
  /\ pc = "L35" /\ ekind = "new_task" /\ sendState = "failed"
  /\ eresult = "returned"

\* C9: with emails enabled, send_new_message_notification's sender_name is
\* the sender's full name if non-empty, else the username, and "User" when
\* the sender is missing, in which case the function does not raise.
C9_SenderDisplayName ==
  (MailDone /\ ekind = "chat_notify" /\ ~settings.DISABLE_EMAILS)
    => IF sender.present
       THEN sender_name = (IF sender.full_name # "" THEN sender.full_name
                           ELSE sender.username)
       ELSE sender_name = "User" /\ eresult # "AttributeError"

\* C10: every connection an email function opened is closed by the time the
\* function is over, so none stays open between calls.
C10_ConnectionsClosed ==
  epc \in {"idle", "ret"} => openConns = 0
====
